---------------------------- MODULE Spec2Model ----------------------------
(***************************************************************************)
(* Model of the telemetry synchronisation hook useSecurityDashboard of     *)
(* SentinAI NetGuard (frontend/src/hooks/useAuth.js).  The file holds two  *)
(* revisions of the hook: the one built on the shared api client (lines    *)
(* 85-322, with the isMounted guard and toggleStorageMode) and the one     *)
(* built on axios (lines 337-548, with the fallback polling timer and the  *)
(* snapshot alert trigger).  The variable `variant` selects the revision.  *)
(*                                                                         *)
(* One action is one turn of the JavaScript event loop: a user intent, a   *)
(* timer tick, a socket event, or the continuation of an async function    *)
(* after one of its awaits.  React applies the state setters of one turn   *)
(* together, so each turn is one atomic step.                              *)
(***************************************************************************)
EXTENDS Integers, Sequences, FiniteSets, TLC

VARIABLES
    variant,              \* "api" (lines 85-322) or "axios" (lines 337-548)
    isAuthenticated,      \* hook argument, owned by useAuth
    dateFilter,           \* hook argument, App's selectedDate ("" = no filter)
    threats,              \* useState([])    canonical event list
    riskStats,            \* useState([])    [{name, value}]
    attackTypes,          \* useState([])    [{name, value}]
    criticalAlerts,       \* useState([])
    loading,              \* useState(true)
    highRiskCount,        \* useState(0)
    alert,                \* useState(null)  the single notification slot
    isMounted,            \* useRef(true)    (api revision only)
    lastThreatTimestamp,  \* useRef(null)    (0 = null)
    storageMode,          \* useState('local')
    socket,               \* WebSocket of the current effect run
    timer,                \* setInterval of the current effect run (axios)
    syncs,                \* every synchronizeTelemetry call, by issue order
    resolves,             \* outstanding POST /threats/{id}/resolve calls
    blocks,               \* outstanding POST /threats/{id}/block calls
    toggles,              \* outstanding POST /system/mode calls
    appliedSeq,           \* history: the call whose response was last written
    pushedDuring,         \* history: ids pushed while a resolve call was out
    channels,             \* WebSockets created and not yet closed
    lastOp,               \* history: the turn that produced this state
    inputs                \* history: external inputs taken so far

vars == <<variant, isAuthenticated, dateFilter, threats, riskStats,
          attackTypes, criticalAlerts, loading, highRiskCount, alert,
          isMounted, lastThreatTimestamp, storageMode, socket, timer,
          syncs, resolves, blocks, toggles, appliedSeq, pushedDuring,
          channels, lastOp, inputs>>

telemetry == <<threats, riskStats, attackTypes, criticalAlerts, highRiskCount>>

(***************************************************************************)
(* Bounds of the model.                                                    *)
(***************************************************************************)
MaxInputs == 3    \* external inputs (user intents, socket messages and
                  \* closes, timer ticks) taken in one behaviour

(***************************************************************************)
(* Data: threat events, time windows, backend responses.                   *)
(***************************************************************************)
EventIds == 1..4

NoFilter == ""
Windows == {"D1", "D2"}

Ev(i) ==
    [id |-> i,
     risk_score |-> CASE i = 1 -> 85 [] i = 2 -> 45 [] i = 3 -> 60 [] OTHER -> 20,
     predicted_label |-> CASE i = 1 -> "DDoS" [] i = 2 -> "Port Scan"
                           [] i = 3 -> "Brute Force" [] OTHER -> "Normal",
     status |-> "Active",
     timestamp |-> i]

NoAlert == [type |-> "none", message |-> "none"]
Alert(t, m) == [type |-> t, message |-> m]



(***************************************************************************)
(* Aggregation: the client-side recomputation of the filtered view and the *)
(* bucket selection of the push handler.                                   *)
(***************************************************************************)
BucketNames == <<"Critical", "High", "Medium", "Low">>

RiskKeyLowerBucket(score) ==
    IF score > 80 THEN "Critical"
    ELSE IF score >= 60 THEN "High"
    ELSE IF score >= 30 THEN "Medium"
    ELSE "Low"

\* The bucket of a risk score (lines 149-152 and 246-248).
RiskKey(score) ==
    IF score >= 80 THEN "Critical"
    ELSE IF score >= 60 THEN "High"
    ELSE IF score >= 30 THEN "Medium"
    ELSE "Low"

\* riskCounts after the forEach over the list (lines 143, 146-152).
riskCounts(list) ==
    [k \in {"Critical", "High", "Medium", "Low"} |->
        Cardinality({i \in 1..Len(list) : RiskKey(list[i].risk_score) = k})]

\* Object.keys(riskCounts).map(k => ({name: k, value: riskCounts[k]})).
RiskStatsOf(list) ==
    [i \in 1..4 |-> [name |-> BucketNames[i],
                     value |-> riskCounts(list)[BucketNames[i]]]]

\* t.predicted_label || t.label || 'Unknown' (line 155).
LabelOf(t) == IF t.predicted_label = "" THEN "Unknown" ELSE t.predicted_label

TallyAddFromZero(acc, label) ==
    IF \E i \in 1..Len(acc) : acc[i].name = label
    THEN [i \in 1..Len(acc) |->
            IF acc[i].name = label
            THEN [acc[i] EXCEPT !.value = @ + 1]
            ELSE acc[i]]
    ELSE Append(acc, [name |-> label, value |-> 0])

\* typeCounts[label] = (typeCounts[label] || 0) + 1, on a map that keeps the
\* insertion order of its keys.
TallyAdd(acc, label) ==
    IF \E i \in 1..Len(acc) : acc[i].name = label
    THEN [i \in 1..Len(acc) |->
            IF acc[i].name = label
            THEN [acc[i] EXCEPT !.value = @ + 1]
            ELSE acc[i]]
    ELSE Append(acc, [name |-> label, value |-> 1])

RECURSIVE TallyFrom(_, _)
TallyFrom(acc, list) ==
    IF list = <<>> THEN acc
    ELSE TallyFrom(TallyAdd(acc, LabelOf(Head(list))), Tail(list))

\* Object.keys(typeCounts).map(...) after the forEach (lines 144, 155-160).
AttackTypesOf(list) == TallyFrom(<<>>, list)

IsCritical(t) == t.risk_score >= 80

\* filteredThreats.filter(t => t.risk_score >= 80) (line 161).
CriticalOf(list) == SelectSeq(list, IsCritical)

\* stats.find(s => s.name === name)?.value || 0 (lines 173-174).
StatValue(stats, name) ==
    IF \E i \in 1..Len(stats) : stats[i].name = name
    THEN stats[CHOOSE i \in 1..Len(stats) :
                  /\ stats[i].name = name
                  /\ \A j \in 1..(i - 1) : stats[j].name # name].value
    ELSE 0

\* The updater of setRiskStats in the push handler (lines 244-252): the
\* first entry named after the bucket is incremented, if there is one.
IncrementStat(stats, key) ==
    IF \E i \in 1..Len(stats) : stats[i].name = key
    THEN LET idx == CHOOSE i \in 1..Len(stats) :
                        /\ stats[i].name = key
                        /\ \A j \in 1..(i - 1) : stats[j].name # key
         IN  [stats EXCEPT ![idx].value = @ + 1]
    ELSE stats

(***************************************************************************)
(* Backend responses.  GET /dashboard/summary answers with one of three    *)
(* payloads: an empty object (every field takes its default, lines         *)
(* 111-119), or a self-consistent snapshot of one or two events.           *)
(* GET /threats answers with the events of the requested day.              *)
(***************************************************************************)
SummaryPayloads == {1, 2, 3}

PayloadThreats(k) ==
    CASE k = 2 -> <<Ev(1)>>
      [] k = 3 -> <<Ev(2), Ev(1)>>
      [] OTHER -> <<>>

Payload(k) ==
    IF k = 1
    THEN [threats |-> <<>>, risk_summary |-> <<>>, attack_types |-> <<>>,
          critical_alerts |-> <<>>]
    ELSE [threats |-> PayloadThreats(k),
          risk_summary |-> RiskStatsOf(PayloadThreats(k)),
          attack_types |-> AttackTypesOf(PayloadThreats(k)),
          critical_alerts |-> CriticalOf(PayloadThreats(k))]

WindowEvents(w) == IF w = "D1" THEN <<Ev(3), Ev(1)>> ELSE <<Ev(2)>>

(***************************************************************************)
(* State after the first render, before authentication.                    *)
(***************************************************************************)
Init ==
    /\ variant \in {"api", "axios"}
    /\ isAuthenticated = FALSE
    /\ dateFilter \in {NoFilter, "D1"}
    /\ threats = <<>>
    /\ riskStats = <<>>
    /\ attackTypes = <<>>
    /\ criticalAlerts = <<>>
    /\ loading = TRUE
    /\ highRiskCount = 0
    /\ alert = NoAlert
    /\ isMounted = TRUE
    /\ lastThreatTimestamp = 0
    /\ storageMode = "local"
    /\ socket = "none"
    /\ timer = FALSE
    /\ syncs = <<>>
    /\ resolves = {}
    /\ blocks = {}
    /\ toggles = {}
    /\ appliedSeq = 0
    /\ pushedDuring = {}
    /\ channels = 0
    /\ lastOp = "Init"
    /\ inputs = 0

\* An external input consumes one unit of the behaviour's budget; the
\* continuation of an async call or the opening of the socket consumes none.
Input == inputs < MaxInputs /\ inputs' = inputs + 1
Reaction == inputs' = inputs

(***************************************************************************)
(* The effect on [isAuthenticated, dateFilter] (lines 211-272, 469-529).   *)
(***************************************************************************)
\* A call of synchronizeTelemetry by the closure that captured filter f: the
\* summary request is in flight.
IssueSync(f) ==
    syncs' = Append(syncs, [filter |-> f, pc |-> "summary", summ |-> 0])

EffectBodyWithoutPull(f) ==
    /\ syncs' = syncs
    /\ socket' = "connecting"
    /\ timer' = (variant = "axios")

\* The effect body for an authenticated session: one pull, a new socket,
\* and in the axios revision the fallback interval.
EffectBody(f) ==
    /\ IssueSync(f)
    /\ socket' = "connecting"
    /\ timer' = (variant = "axios")

CleanupChannelsLeak == channels

\* socket.close() of the cleanup (lines 270, 527): the socket of the run that
\* is cleaned up stops being live, if it still was.
CleanupChannels ==
    IF socket \in {"connecting", "open"} THEN channels - 1 ELSE channels

\* The cleanup of the previous effect run (lines 268-271, 525-528).
CleanupMounted == IF variant = "api" THEN FALSE ELSE isMounted

\* useAuth.login succeeds: isAuthenticated turns true and the effect runs.
Login ==
    /\ ~isAuthenticated
    /\ isAuthenticated' = TRUE
    /\ EffectBody(dateFilter)
    /\ channels' = channels + 1
    /\ lastOp' = "Login"
    /\ Input
    /\ UNCHANGED <<variant, pushedDuring, dateFilter, telemetry, loading,
                   alert, isMounted, lastThreatTimestamp, storageMode,
                   resolves, blocks, toggles, appliedSeq>>

LogoutKeepsInterval ==
    /\ isAuthenticated
    /\ isAuthenticated' = FALSE
    /\ isMounted' = CleanupMounted
    /\ socket' = "closed"
    /\ channels' = CleanupChannels
    /\ lastOp' = "Logout"
    /\ Input
    /\ UNCHANGED <<variant, pushedDuring, dateFilter, telemetry, loading,
                   alert, lastThreatTimestamp, storageMode, timer, syncs,
                   resolves, blocks, toggles, appliedSeq>>

\* useAuth.logout: the cleanup runs, the next effect run returns at once.
Logout ==
    /\ isAuthenticated
    /\ isAuthenticated' = FALSE
    /\ isMounted' = CleanupMounted
    /\ socket' = "closed"
    /\ timer' = FALSE
    /\ channels' = CleanupChannels
    /\ lastOp' = "Logout"
    /\ Input
    /\ UNCHANGED <<variant, pushedDuring, dateFilter, telemetry, loading,
                   alert, lastThreatTimestamp, storageMode, syncs, resolves,
                   blocks, toggles, appliedSeq>>

\* The date input changes selectedDate (App.jsx line 108): cleanup of the
\* previous run, then the effect body with the new filter.
SetDateFilter(w) ==
    /\ isAuthenticated
    /\ w # dateFilter
    /\ dateFilter' = w
    /\ isMounted' = CleanupMounted
    /\ EffectBody(w)
    /\ channels' = CleanupChannels + 1
    /\ lastOp' = "SetDateFilter"
    /\ Input
    /\ UNCHANGED <<variant, pushedDuring, isAuthenticated, telemetry, loading,
                   alert, lastThreatTimestamp, storageMode, resolves, blocks,
                   toggles, appliedSeq>>

(***************************************************************************)
(* The push channel.                                                       *)
(***************************************************************************)
SocketOpen ==
    /\ socket = "connecting"
    /\ socket' = "open"
    /\ lastOp' = "SocketOpen"
    /\ Reaction
    /\ UNCHANGED <<variant, channels, pushedDuring, isAuthenticated,
                   dateFilter, telemetry, loading, alert, isMounted,
                   lastThreatTimestamp, storageMode, timer, syncs, resolves,
                   blocks, toggles, appliedSeq>>

\* The backend or the network closes the channel (onclose only logs).
SocketClose ==
    /\ socket \in {"connecting", "open"}
    /\ socket' = "closed"
    /\ channels' = channels - 1
    /\ lastOp' = "SocketClose"
    /\ Input
    /\ UNCHANGED <<variant, pushedDuring, isAuthenticated, dateFilter,
                   telemetry, loading, alert, isMounted, lastThreatTimestamp,
                   storageMode, timer, syncs, resolves, blocks, toggles,
                   appliedSeq>>

\* setAlert of the push handler (lines 235-238).
PushAlert(t) ==
    Alert(IF t.risk_score >= 80 THEN "critical" ELSE "warning",
          "Active Threat Detected")

\* setThreats(prev => [threat, ...prev]) (line 241).
PushThreats(t, prev) == <<t>> \o prev

\* setRiskStats updater (lines 244-252).
PushRiskStats(t, prev) == IncrementStat(prev, RiskKey(t.risk_score))

\* setHighRiskCount of the push handler (lines 255-257); the axios revision
\* has no such statement (lines 498-508).
PushHighRiskCount(t, prev) ==
    IF variant = "api" /\ t.risk_score >= 60 THEN prev + 1 ELSE prev

\* socket.onmessage with a THREAT_DETECTED message carrying event t.
PushThreat(t) ==
    /\ socket = "open"
    /\ alert' = PushAlert(t)
    /\ threats' = PushThreats(t, threats)
    /\ riskStats' = PushRiskStats(t, riskStats)
    /\ highRiskCount' = PushHighRiskCount(t, highRiskCount)
    /\ pushedDuring' = IF resolves # {} THEN pushedDuring \cup {t.id}
                       ELSE pushedDuring
    /\ lastOp' = "PushThreat"
    /\ Input
    /\ UNCHANGED <<variant, channels, isAuthenticated, dateFilter, attackTypes,
                   criticalAlerts, loading, isMounted, lastThreatTimestamp,
                   storageMode, socket, timer, syncs, resolves, blocks,
                   toggles, appliedSeq>>

PushIgnoredEndsSession ==
    /\ socket = "open"
    /\ socket' = "closed"
    /\ lastOp' \in {"PushOtherType", "PushMalformed"}
    /\ Input
    /\ UNCHANGED <<variant, channels, pushedDuring, isAuthenticated,
                   dateFilter, telemetry, loading, alert, isMounted,
                   lastThreatTimestamp, storageMode, timer, syncs, resolves,
                   blocks, toggles, appliedSeq>>

\* socket.onmessage with a message of another type, or with a payload that
\* JSON.parse rejects (the catch only logs).
PushIgnored ==
    /\ socket = "open"
    /\ lastOp' \in {"PushOtherType", "PushMalformed"}
    /\ Input
    /\ UNCHANGED <<variant, channels, pushedDuring, isAuthenticated,
                   dateFilter, telemetry, loading, alert, isMounted,
                   lastThreatTimestamp, storageMode, socket, timer, syncs,
                   resolves, blocks, toggles, appliedSeq>>

(***************************************************************************)
(* synchronizeTelemetry (lines 104-187 and 355-445), one action per        *)
(* continuation.                                                           *)
(***************************************************************************)
SetPc(s, p, k) == syncs' = [syncs EXCEPT ![s].pc = p, ![s].summ = k]

\* critical + high of a risk_summary (lines 173-175, 420-422).
HighRiskOf(risk_summary) ==
    StatValue(risk_summary, "Critical") + StatValue(risk_summary, "High")

\* The alert trigger of the axios revision (lines 424-436), on the threats
\* of the summary payload.
NewLatest(list) == Len(list) > 0 /\ list[1].timestamp # lastThreatTimestamp

TriggerTimestamp(list) ==
    IF NewLatest(list) THEN list[1].timestamp ELSE lastThreatTimestamp

TriggerAlert(list, current) ==
    IF NewLatest(list) /\ list[1].risk_score >= 80
    THEN Alert("critical", "Critical Anomaly Detected")
    ELSE current

\* The summary request fails: the outer catch and the finally block.
SummaryFail(s) ==
    /\ syncs[s].pc = "summary"
    /\ alert' = Alert("error", "Connection lost. Retrying...")
    /\ loading' = FALSE
    /\ SetPc(s, "fail", 0)
    /\ lastOp' = "SummaryFail"
    /\ Reaction
    /\ UNCHANGED <<variant, channels, pushedDuring, isAuthenticated,
                   dateFilter, telemetry, isMounted, lastThreatTimestamp,
                   storageMode, socket, timer, resolves, blocks, toggles,
                   appliedSeq>>

\* if (!isMounted.current) return (line 121); the axios revision has no guard.
Discards == variant = "api" /\ ~isMounted

SummaryDiscardedSkipsFinally(s) ==
    /\ syncs[s].pc = "summary"
    /\ Discards
    /\ loading' = loading
    /\ SetPc(s, "ok", 0)
    /\ lastOp' = "SummaryDiscarded"
    /\ Reaction
    /\ UNCHANGED <<variant, channels, pushedDuring, isAuthenticated,
                   dateFilter, telemetry, alert, isMounted,
                   lastThreatTimestamp, storageMode, socket, timer, resolves,
                   blocks, toggles, appliedSeq>>

\* The summary response arrives after the cleanup ran: only finally acts.
SummaryDiscarded(s) ==
    /\ syncs[s].pc = "summary"
    /\ Discards
    /\ loading' = FALSE
    /\ SetPc(s, "ok", 0)
    /\ lastOp' = "SummaryDiscarded"
    /\ Reaction
    /\ UNCHANGED <<variant, channels, pushedDuring, isAuthenticated,
                   dateFilter, telemetry, alert, isMounted,
                   lastThreatTimestamp, storageMode, socket, timer, resolves,
                   blocks, toggles, appliedSeq>>

SummaryAppliedMerges(s, k) ==
    /\ syncs[s].pc = "summary"
    /\ ~Discards
    /\ threats' = Payload(k).threats \o threats
    /\ riskStats' = Payload(k).risk_summary
    /\ attackTypes' = Payload(k).attack_types
    /\ criticalAlerts' = Payload(k).critical_alerts
    /\ appliedSeq' = s
    /\ IF syncs[s].filter # NoFilter
       THEN /\ SetPc(s, "filtered", k)
            /\ UNCHANGED <<highRiskCount, alert, lastThreatTimestamp, loading>>
       ELSE /\ SetPc(s, "ok", 0)
            /\ highRiskCount' = HighRiskOf(Payload(k).risk_summary)
            /\ loading' = FALSE
            /\ IF variant = "axios"
               THEN /\ alert' = TriggerAlert(Payload(k).threats, alert)
                    /\ lastThreatTimestamp' = TriggerTimestamp(Payload(k).threats)
               ELSE UNCHANGED <<alert, lastThreatTimestamp>>
    /\ lastOp' = "SummaryApplied"
    /\ Reaction
    /\ UNCHANGED <<variant, channels, pushedDuring, isAuthenticated,
                   dateFilter, isMounted, storageMode, socket, timer, resolves,
                   blocks, toggles>>

SummaryAppliedKeepsCritical(s, k) ==
    /\ syncs[s].pc = "summary"
    /\ ~Discards
    /\ threats' = Payload(k).threats
    /\ riskStats' = Payload(k).risk_summary
    /\ attackTypes' = Payload(k).attack_types
    /\ criticalAlerts' = criticalAlerts
    /\ appliedSeq' = s
    /\ IF syncs[s].filter # NoFilter
       THEN /\ SetPc(s, "filtered", k)
            /\ UNCHANGED <<highRiskCount, alert, lastThreatTimestamp, loading>>
       ELSE /\ SetPc(s, "ok", 0)
            /\ highRiskCount' = HighRiskOf(Payload(k).risk_summary)
            /\ loading' = FALSE
            /\ IF variant = "axios"
               THEN /\ alert' = TriggerAlert(Payload(k).threats, alert)
                    /\ lastThreatTimestamp' = TriggerTimestamp(Payload(k).threats)
               ELSE UNCHANGED <<alert, lastThreatTimestamp>>
    /\ lastOp' = "SummaryApplied"
    /\ Reaction
    /\ UNCHANGED <<variant, channels, pushedDuring, isAuthenticated,
                   dateFilter, isMounted, storageMode, socket, timer, resolves,
                   blocks, toggles>>

\* The summary response with payload k is written (lines 123-129); with a
\* date filter the call goes on to the filtered request, without one it
\* finishes (lines 171-180, 419-438).
SummaryApplied(s, k) ==
    /\ syncs[s].pc = "summary"
    /\ ~Discards
    /\ threats' = Payload(k).threats
    /\ riskStats' = Payload(k).risk_summary
    /\ attackTypes' = Payload(k).attack_types
    /\ criticalAlerts' = Payload(k).critical_alerts
    /\ appliedSeq' = s
    /\ IF syncs[s].filter # NoFilter
       THEN /\ SetPc(s, "filtered", k)
            /\ UNCHANGED <<highRiskCount, alert, lastThreatTimestamp, loading>>
       ELSE /\ SetPc(s, "ok", 0)
            /\ highRiskCount' = HighRiskOf(Payload(k).risk_summary)
            /\ loading' = FALSE
            /\ IF variant = "axios"
               THEN /\ alert' = TriggerAlert(Payload(k).threats, alert)
                    /\ lastThreatTimestamp' = TriggerTimestamp(Payload(k).threats)
               ELSE UNCHANGED <<alert, lastThreatTimestamp>>
    /\ lastOp' = "SummaryApplied"
    /\ Reaction
    /\ UNCHANGED <<variant, channels, pushedDuring, isAuthenticated,
                   dateFilter, isMounted, storageMode, socket, timer, resolves,
                   blocks, toggles>>

\* highRiskCount after the filtered branch: recomputed from the filtered
\* events in the api revision (line 164), from the summary's risk_summary in
\* the axios revision (lines 420-422).
FilteredHighRiskCount(s, list) ==
    IF variant = "api"
    THEN riskCounts(list)["Critical"] + riskCounts(list)["High"]
    ELSE HighRiskOf(Payload(syncs[s].summ).risk_summary)

\* The filtered response is written (lines 139-164); no isMounted check
\* stands between the second await and the setters.
FilteredApplied(s) ==
    /\ syncs[s].pc = "filtered"
    /\ LET list == WindowEvents(syncs[s].filter) IN
        /\ threats' = list
        /\ riskStats' = RiskStatsOf(list)
        /\ attackTypes' = AttackTypesOf(list)
        /\ criticalAlerts' = CriticalOf(list)
        /\ highRiskCount' = FilteredHighRiskCount(s, list)
    /\ IF variant = "axios"
       THEN /\ alert' = TriggerAlert(Payload(syncs[s].summ).threats, alert)
            /\ lastThreatTimestamp' =
                   TriggerTimestamp(Payload(syncs[s].summ).threats)
       ELSE UNCHANGED <<alert, lastThreatTimestamp>>
    /\ loading' = FALSE
    /\ appliedSeq' = s
    /\ SetPc(s, "ok", 0)
    /\ lastOp' = "FilteredApplied"
    /\ Reaction
    /\ UNCHANGED <<variant, channels, pushedDuring, isAuthenticated,
                   dateFilter, isMounted, storageMode, socket, timer, resolves,
                   blocks, toggles>>

\* The filtered request fails: the inner catch (lines 166-170), then the
\* rest of the function.
FilteredFail(s) ==
    /\ syncs[s].pc = "filtered"
    /\ IF variant = "axios"
       THEN /\ highRiskCount' = HighRiskOf(Payload(syncs[s].summ).risk_summary)
            /\ alert' = TriggerAlert(Payload(syncs[s].summ).threats,
                                     Alert("error", "Filter failed"))
            /\ lastThreatTimestamp' =
                   TriggerTimestamp(Payload(syncs[s].summ).threats)
       ELSE /\ alert' = Alert("error", "Filter failed")
            /\ UNCHANGED <<highRiskCount, lastThreatTimestamp>>
    /\ loading' = FALSE
    /\ SetPc(s, "fail", 0)
    /\ lastOp' = "FilteredFail"
    /\ Reaction
    /\ UNCHANGED <<variant, channels, pushedDuring, isAuthenticated,
                   dateFilter, threats, riskStats, attackTypes, criticalAlerts,
                   isMounted, storageMode, socket, timer, resolves, blocks,
                   toggles, appliedSeq>>

TimerTickUnguarded ==
    /\ timer
    /\ IssueSync(dateFilter)
    /\ lastOp' = "TimerTick"
    /\ Input
    /\ UNCHANGED <<variant, channels, pushedDuring, isAuthenticated,
                   dateFilter, telemetry, loading, alert, isMounted,
                   lastThreatTimestamp, storageMode, socket, timer, resolves,
                   blocks, toggles, appliedSeq>>

\* The fallback interval of the axios revision (lines 519-523), while the
\* document is visible.
TimerTick ==
    /\ timer
    /\ socket # "open"
    /\ IssueSync(dateFilter)
    /\ lastOp' = "TimerTick"
    /\ Input
    /\ UNCHANGED <<variant, channels, pushedDuring, isAuthenticated,
                   dateFilter, telemetry, loading, alert, isMounted,
                   lastThreatTimestamp, storageMode, socket, timer, resolves,
                   blocks, toggles, appliedSeq>>

(***************************************************************************)
(* User intents (lines 189-209, 285-297).                                  *)
(***************************************************************************)
\* The ids the table, the incident modal and the header offer to act on.
ShownIds ==
    {threats[i].id : i \in 1..Len(threats)}
        \cup {criticalAlerts[i].id : i \in 1..Len(criticalAlerts)}

\* resolveThreat(id) up to its await: the POST is in flight.
ResolveThreat(id) ==
    /\ isAuthenticated
    /\ id \in ShownIds
    /\ id \notin resolves
    /\ resolves' = resolves \cup {id}
    /\ pushedDuring' = IF resolves = {} THEN {} ELSE pushedDuring
    /\ lastOp' = "ResolveThreat"
    /\ Input
    /\ UNCHANGED <<variant, channels, isAuthenticated, dateFilter, telemetry,
                   loading, alert, isMounted, lastThreatTimestamp, storageMode,
                   socket, timer, syncs, blocks, toggles, appliedSeq>>

MarkResolvedAll(prev, id) ==
    [i \in 1..Len(prev) |-> [prev[i] EXCEPT !.status = "Resolved"]]

\* prev.map(t => t.id === id ? {...t, status: 'Resolved'} : t) (line 193).
MarkResolved(prev, id) ==
    [i \in 1..Len(prev) |->
        IF prev[i].id = id THEN [prev[i] EXCEPT !.status = "Resolved"]
        ELSE prev[i]]

\* prev.filter(t => t.id !== id) (line 194).
RECURSIVE WithoutId(_, _)
WithoutId(prev, id) ==
    IF prev = <<>> THEN <<>>
    ELSE IF Head(prev).id = id THEN WithoutId(Tail(prev), id)
    ELSE <<Head(prev)>> \o WithoutId(Tail(prev), id)

\* The POST succeeded: the statements after the await (lines 193-195).
ResolveOk(id) ==
    /\ id \in resolves
    /\ resolves' = resolves \ {id}
    /\ threats' = MarkResolved(threats, id)
    /\ criticalAlerts' = WithoutId(criticalAlerts, id)
    /\ alert' = Alert("success", "Incident marked as resolved.")
    /\ lastOp' = "ResolveOk"
    /\ Reaction
    /\ UNCHANGED <<variant, channels, pushedDuring, isAuthenticated,
                   dateFilter, riskStats, attackTypes, loading, highRiskCount,
                   isMounted, lastThreatTimestamp, storageMode, socket, timer,
                   syncs, blocks, toggles, appliedSeq>>

\* The POST failed: the catch (lines 196-199).
ResolveFail(id) ==
    /\ id \in resolves
    /\ resolves' = resolves \ {id}
    /\ alert' = Alert("error", "Failed to resolve threat.")
    /\ lastOp' = "ResolveFail"
    /\ Reaction
    /\ UNCHANGED <<variant, channels, pushedDuring, isAuthenticated,
                   dateFilter, telemetry, loading, isMounted,
                   lastThreatTimestamp, storageMode, socket, timer, syncs,
                   blocks, toggles, appliedSeq>>

\* blockIP(id, ip) up to its await.
BlockIP(id) ==
    /\ isAuthenticated
    /\ id \in ShownIds
    /\ id \notin blocks
    /\ blocks' = blocks \cup {id}
    /\ lastOp' = "BlockIP"
    /\ Input
    /\ UNCHANGED <<variant, channels, pushedDuring, isAuthenticated,
                   dateFilter, telemetry, loading, alert, isMounted,
                   lastThreatTimestamp, storageMode, socket, timer, syncs,
                   resolves, toggles, appliedSeq>>

BlockDoneDropsAlert(id, ok) ==
    /\ id \in blocks
    /\ blocks' = blocks \ {id}
    /\ alert' = IF ok THEN Alert("success", "IP blocked successfully.")
                ELSE Alert("error", "Block action failed.")
    /\ criticalAlerts' = IF ok THEN WithoutId(criticalAlerts, id)
                         ELSE criticalAlerts
    /\ lastOp' = (IF ok THEN "BlockOk" ELSE "BlockFail")
    /\ Reaction
    /\ UNCHANGED <<variant, channels, pushedDuring, isAuthenticated,
                   dateFilter, threats, riskStats, attackTypes, highRiskCount,
                   loading, isMounted, lastThreatTimestamp, storageMode,
                   socket, timer, syncs, resolves, toggles, appliedSeq>>

\* blockIP after its await (lines 204-208): the success or the error alert.
BlockDone(id, ok) ==
    /\ id \in blocks
    /\ blocks' = blocks \ {id}
    /\ alert' = IF ok THEN Alert("success", "IP blocked successfully.")
                ELSE Alert("error", "Block action failed.")
    /\ lastOp' = (IF ok THEN "BlockOk" ELSE "BlockFail")
    /\ Reaction
    /\ UNCHANGED <<variant, channels, pushedDuring, isAuthenticated,
                   dateFilter, telemetry, loading, isMounted,
                   lastThreatTimestamp, storageMode, socket, timer, syncs,
                   resolves, toggles, appliedSeq>>

\* toggleStorageMode up to its await (api revision): the closure holds the
\* mode to switch to and the dateFilter of its render.
ToggleStorageMode ==
    /\ variant = "api"
    /\ isAuthenticated
    /\ toggles = {}
    /\ toggles' = {[mode |-> IF storageMode = "cloud" THEN "local" ELSE "cloud",
                    filter |-> dateFilter]}
    /\ lastOp' = "ToggleStorageMode"
    /\ Input
    /\ UNCHANGED <<variant, channels, pushedDuring, isAuthenticated,
                   dateFilter, telemetry, loading, alert, isMounted,
                   lastThreatTimestamp, storageMode, socket, timer, syncs,
                   resolves, blocks, appliedSeq>>

\* The mode switch succeeded: a refresh is issued (lines 289-292).
ToggleOk(g) ==
    /\ g \in toggles
    /\ toggles' = toggles \ {g}
    /\ storageMode' = g.mode
    /\ alert' = Alert("success", "Switched Storage")
    /\ IssueSync(g.filter)
    /\ lastOp' = "ToggleOk"
    /\ Reaction
    /\ UNCHANGED <<variant, channels, pushedDuring, isAuthenticated,
                   dateFilter, telemetry, loading, isMounted,
                   lastThreatTimestamp, socket, timer, resolves, blocks,
                   appliedSeq>>

ToggleFail(g) ==
    /\ g \in toggles
    /\ toggles' = toggles \ {g}
    /\ alert' = Alert("error", "Switch failed")
    /\ lastOp' = "ToggleFail"
    /\ Reaction
    /\ UNCHANGED <<variant, channels, pushedDuring, isAuthenticated,
                   dateFilter, telemetry, loading, isMounted,
                   lastThreatTimestamp, storageMode, socket, timer, syncs,
                   resolves, blocks, appliedSeq>>

Next ==
    \/ Login
    \/ Logout
    \/ \E w \in Windows \cup {NoFilter} : SetDateFilter(w)
    \/ SocketOpen
    \/ SocketClose
    \/ \E i \in EventIds : PushThreat(Ev(i))
    \/ PushIgnored
    \/ \E s \in 1..Len(syncs) : SummaryFail(s)
    \/ \E s \in 1..Len(syncs) : SummaryDiscarded(s)
    \/ \E s \in 1..Len(syncs), k \in SummaryPayloads : SummaryApplied(s, k)
    \/ \E s \in 1..Len(syncs) : FilteredApplied(s)
    \/ \E s \in 1..Len(syncs) : FilteredFail(s)
    \/ TimerTick
    \/ \E id \in EventIds : ResolveThreat(id)
    \/ \E id \in EventIds : ResolveOk(id)
    \/ \E id \in EventIds : ResolveFail(id)
    \/ \E id \in EventIds : BlockIP(id)
    \/ \E id \in EventIds, ok \in BOOLEAN : BlockDone(id, ok)
    \/ ToggleStorageMode
    \/ \E g \in toggles : ToggleOk(g)
    \/ \E g \in toggles : ToggleFail(g)

Spec == Init /\ [][Next]_vars

\* Any continuation of a synchronizeTelemetry call: one of its two requests
\* settles, with a response or with an error.
Responses ==
    \E s \in 1..Len(syncs) :
        \/ SummaryFail(s)
        \/ SummaryDiscarded(s)
        \/ \E k \in SummaryPayloads : SummaryApplied(s, k)
        \/ FilteredApplied(s)
        \/ FilteredFail(s)

\* The scheduling the browser guarantees: an armed interval keeps firing
\* (and pulls whenever its condition holds), and every request settles.  The
\* socket is not assumed to open or to stay open.
LiveSpec == Spec /\ WF_vars(TimerTick) /\ WF_vars(Responses)

(***************************************************************************)
(* The client-side aggregation on its own (lines 139-164): the forEach     *)
(* over an arbitrary GET /threats response, with risk scores on and next   *)
(* to the bucket boundaries and with labels that repeat or are missing.    *)
(***************************************************************************)
MaxLen == 3    \* events in one GET /threats response

Scores == {29, 30, 59, 60, 79, 80}
Labels == {"DDoS", "Port Scan", ""}

ResponseEvents ==
    {[id |-> 1, risk_score |-> sc, predicted_label |-> lb,
      status |-> "Active", timestamp |-> 1] : sc \in Scores, lb \in Labels}

ThreatResponses == UNION {[1..n -> ResponseEvents] : n \in 0..MaxLen}

\* The hook holds a filtered response that has not been aggregated yet.
AggInit ==
    /\ variant = "api"
    /\ isAuthenticated = TRUE
    /\ dateFilter = "D1"
    /\ threats \in ThreatResponses
    /\ riskStats = <<>>
    /\ attackTypes = <<>>
    /\ criticalAlerts = <<>>
    /\ loading = TRUE
    /\ highRiskCount = 0
    /\ alert = NoAlert
    /\ isMounted = TRUE
    /\ lastThreatTimestamp = 0
    /\ storageMode = "local"
    /\ socket = "connecting"
    /\ timer = FALSE
    /\ syncs = <<[filter |-> "D1", pc |-> "filtered", summ |-> 1]>>
    /\ resolves = {}
    /\ blocks = {}
    /\ toggles = {}
    /\ appliedSeq = 1
    /\ pushedDuring = {}
    /\ channels = 1
    /\ lastOp = "setThreats"
    /\ inputs = 1

\* The statements after setThreats(filteredThreats) (lines 142-165).
Recompute ==
    /\ lastOp = "setThreats"
    /\ riskStats' = RiskStatsOf(threats)
    /\ attackTypes' = AttackTypesOf(threats)
    /\ criticalAlerts' = CriticalOf(threats)
    /\ highRiskCount' = riskCounts(threats)["Critical"]
                           + riskCounts(threats)["High"]
    /\ loading' = FALSE
    /\ syncs' = <<[filter |-> "D1", pc |-> "ok", summ |-> 0]>>
    /\ lastOp' = "Recompute"
    /\ UNCHANGED <<variant, channels, pushedDuring, isAuthenticated,
                   dateFilter, threats, alert, isMounted, lastThreatTimestamp,
                   storageMode, socket, timer, resolves, blocks, toggles,
                   appliedSeq, inputs>>

AggNext == Recompute

AggSpec == AggInit /\ [][AggNext]_vars

(***************************************************************************)
(* The table's drill-down view (App.jsx lines 67-82).                      *)
(***************************************************************************)
SeverityPassOverlapping(filterSeverity, score) ==
    /\ ~(filterSeverity = "Critical" /\ score < 80)
    /\ ~(filterSeverity = "High" /\ (score < 60 \/ score > 80))
    /\ ~(filterSeverity = "Medium" /\ (score < 30 \/ score >= 60))
    /\ ~(filterSeverity = "Low" /\ score >= 30)

\* The severity part of the filter callback: none of the four 'return
\* false' statements fires (lines 74-80).
SeverityPass(filterSeverity, score) ==
    /\ ~(filterSeverity = "Critical" /\ score < 80)
    /\ ~(filterSeverity = "High" /\ (score < 60 \/ score >= 80))
    /\ ~(filterSeverity = "Medium" /\ (score < 30 \/ score >= 60))
    /\ ~(filterSeverity = "Low" /\ score >= 30)

\* threats.filter(...) of the useMemo (lines 68-82).
activeViewData(list, filterCategory, filterSeverity) ==
    LET Shown(t) ==
            /\ filterCategory = "All" \/ t.predicted_label = filterCategory
            /\ SeverityPass(filterSeverity, t.risk_score)
    IN  SelectSeq(list, Shown)

(***************************************************************************)
(* Properties.                                                             *)
(***************************************************************************)
InFlight(s) == syncs[s].pc \in {"summary", "filtered"}

\* C1: last-request-wins on filter change.  When the fetch issued for window
\* W1 resolves after the fetch issued later for window W2 has resolved, W1's
\* response is discarded: the step leaves events and aggregates alone and
\* the state shown is the one written from W2's response.
C1_LastRequestWins ==
    [][\A i \in 1..Len(syncs) : \A j \in 1..Len(syncs) :
          (/\ i < j
           /\ j = Len(syncs)
           /\ syncs[i].filter \in Windows
           /\ syncs[j].filter \in Windows
           /\ syncs[i].filter # syncs[j].filter
           /\ syncs[j].pc = "ok"
           /\ InFlight(i)
           /\ syncs'[i].pc = "ok")
          => (UNCHANGED telemetry /\ appliedSeq' = j)]_vars

\* C2: a snapshot response is written into canonical state only if its
\* request is the most recently issued one.
C2_OnlyLatestApplied ==
    [][lastOp' \in {"SummaryApplied", "FilteredApplied"}
          => appliedSeq' = Len(syncs')]_vars

\* C3: push idempotence.  In the unfiltered view, delivering the event that
\* the previous message delivered (same id) once more leaves events,
\* riskBucketCounts, attackTypeCounts and highRiskCount as they were.
C3_PushIdempotent ==
    [][(/\ lastOp = "PushThreat"
        /\ lastOp' = "PushThreat"
        /\ dateFilter = NoFilter
        /\ threats'[1].id = threats[1].id)
          => UNCHANGED <<threats, riskStats, attackTypes, highRiskCount>>]_vars

\* C4: no two entries of the canonical events list share an id.
C4_UniqueIds ==
    \A i \in 1..Len(threats) : \A j \in 1..Len(threats) :
        i # j => threats[i].id # threats[j].id

\* C5: while a time-window filter is set, a THREAT_DETECTED message leaves
\* events, riskBucketCounts, attackTypeCounts, criticalAlerts and
\* highRiskCount unchanged.
C5_FilteredViewFrozen ==
    [][(lastOp' = "PushThreat" /\ dateFilter # NoFilter)
          => UNCHANGED telemetry]_vars

\* The bucket boundaries as the specification states them.
SpecBucket(score) ==
    CASE score >= 80 -> "Critical"
      [] score >= 60 /\ score < 80 -> "High"
      [] score >= 30 /\ score < 60 -> "Medium"
      [] OTHER -> "Low"

\* C6: in the unfiltered view a pushed event goes to the head of the events
\* list (prior entries keep their order) and the one risk bucket selected by
\* its risk_score grows by exactly one, the other three staying as they were.
C6_PushHeadAndBucket ==
    [][(lastOp' = "PushThreat" /\ dateFilter = NoFilter)
          => /\ Len(threats') = Len(threats) + 1
             /\ Tail(threats') = threats
             /\ \A b \in {"Critical", "High", "Medium", "Low"} :
                   StatValue(riskStats', b) =
                       StatValue(riskStats, b)
                         + (IF b = SpecBucket(threats'[1].risk_score)
                            THEN 1 ELSE 0)]_vars

\* C7: in the unfiltered view a pushed event increments the attackTypeCounts
\* entry of its predicted_label by one (created at 1 if unseen).
C7_PushAttackType ==
    [][(lastOp' = "PushThreat" /\ dateFilter = NoFilter)
          => StatValue(attackTypes', threats'[1].predicted_label) =
                 StatValue(attackTypes, threats'[1].predicted_label) + 1]_vars

\* C8: a pushed event sets the notification to severity critical when
\* risk_score >= 80, to warning when 60 <= risk_score < 80, and leaves the
\* notification unchanged when risk_score < 60.
C8_AlertSeverity ==
    [][(lastOp' = "PushThreat" /\ dateFilter = NoFilter)
          => LET score == threats'[1].risk_score IN
             /\ score >= 80 => alert'.type = "critical"
             /\ (score >= 60 /\ score < 80) => alert'.type = "warning"
             /\ score < 60 => alert' = alert]_vars

\* Every local event with this id is Resolved and none is a critical alert.
LocallyResolved(list, crit, id) ==
    /\ \A i \in 1..Len(list) : list[i].id = id => list[i].status = "Resolved"
    /\ \A i \in 1..Len(crit) : crit[i].id # id

\* C9: resolveIncident is optimistic: as soon as the call is issued, and
\* while it is outstanding, the matching local event is Resolved and absent
\* from criticalAlerts.
C9_ResolveOptimistic ==
    lastOp = "ResolveThreat"
        => \A id \in resolves : LocallyResolved(threats, criticalAlerts, id)

\* C10: when the resolve call fails, an error notification is set and the
\* event is still Resolved and absent from criticalAlerts.
C10_ResolveFailureKeepsMutation ==
    [][lastOp' = "ResolveFail"
          => /\ alert'.type = "error"
             /\ \A id \in resolves \ resolves' :
                   LocallyResolved(threats', criticalAlerts', id)]_vars

\* C11: blockIP changes none of threats, riskStats, attackTypes,
\* criticalAlerts and highRiskCount, neither when the call is issued nor when
\* it succeeds or fails; its completion writes only the notification slot
\* (success on success, error on failure).
C11_BlockFrame ==
    [][lastOp' \in {"BlockIP", "BlockOk", "BlockFail"}
          => /\ UNCHANGED telemetry
             /\ UNCHANGED <<loading, storageMode, syncs, resolves>>
             /\ lastOp' = "BlockIP" => alert' = alert
             /\ lastOp' = "BlockOk" => alert'.type = "success"
             /\ lastOp' = "BlockFail" => alert'.type = "error"]_vars

\* A block call failed while events and critical alerts were on display.
C11_Witness ==
    /\ lastOp = "BlockFail"
    /\ alert = Alert("error", "Block action failed.")
    /\ threats # <<>>
    /\ criticalAlerts # <<>>

\* C12: pushes that arrive while a resolve call is outstanding are not lost:
\* when the resolve completes, every event pushed during the call is in
\* threats and every event with the resolved id is marked Resolved.
C12_PushesSurviveResolve ==
    [][lastOp' = "ResolveOk"
          => /\ \A e \in pushedDuring :
                   \E i \in 1..Len(threats') : threats'[i].id = e
             /\ \A id \in resolves \ resolves' :
                   \A i \in 1..Len(threats') :
                      threats'[i].id = id
                         => threats'[i].status = "Resolved"]_vars

\* C13: the fallback timer issues a full pull on a tick only if the socket
\* is not open at that tick: no timer-driven synchronizeTelemetry call is
\* issued while the socket is open, and a tick that pulls issues exactly one
\* call, for the current dateFilter.
C13_TimerOnlyWhenNotOpen ==
    [][lastOp' = "TimerTick"
          => /\ socket # "open"
             /\ timer
             /\ Len(syncs') = Len(syncs) + 1
             /\ syncs'[Len(syncs')].filter = dateFilter
             /\ UNCHANGED telemetry]_vars

\* A tick pulled after the socket had closed, in the revision with a timer.
C13_Witness ==
    /\ lastOp = "TimerTick"
    /\ variant = "axios"
    /\ socket = "closed"
    /\ isAuthenticated
    /\ Len(syncs) = 2

\* C14: after the socket closes in an authenticated session, the fallback
\* timer eventually issues a full pull while the socket stays closed (unless
\* the session ends, a new socket is created, or the behaviour's input
\* budget is used up first).
C14_FallbackPullAfterClose ==
    (isAuthenticated /\ socket = "closed" /\ inputs < MaxInputs /\
     lastOp = "SocketClose")
        ~> \/ lastOp = "TimerTick"
           \/ socket # "closed"
           \/ ~isAuthenticated
           \/ inputs = MaxInputs

\* C15: the results of fetches still in flight when the session is torn down
\* are ignored: once logged out, no summary or filtered response (or
\* failure) changes threats, the aggregates, criticalAlerts, highRiskCount
\* or the notification.
C15_NoWritesAfterTeardown ==
    [][(~isAuthenticated /\
        lastOp' \in {"SummaryApplied", "SummaryDiscarded", "SummaryFail",
                     "FilteredApplied", "FilteredFail"})
          => UNCHANGED <<telemetry, alert>>]_vars

\* C16: teardown cancels the timer and closes the socket, and is idempotent:
\* the state a logout leaves has no timer and a closed socket, the cleanup's
\* assignments evaluated again in that state give the same state, and while
\* the session stays logged out no timer tick issues a pull and no push is
\* applied.
C16_TeardownStopsAndIsIdempotent ==
    [][/\ lastOp' = "Logout"
             => /\ timer' = FALSE
                /\ socket' = "closed"
                /\ isMounted' = CleanupMounted'
                /\ UNCHANGED <<telemetry, alert, syncs>>
       /\ ~isAuthenticated
             => lastOp' \notin {"TimerTick", "PushThreat", "PushOtherType",
                                "PushMalformed", "SocketOpen"}]_vars

\* A session of the revision with a timer was torn down while its socket was
\* open and its first fetch still in flight.
C16_Witness ==
    /\ lastOp = "Logout"
    /\ variant = "axios"
    /\ ~isAuthenticated
    /\ socket = "closed"
    /\ ~timer
    /\ Len(syncs) = 1
    /\ syncs[1].pc = "summary"

\* C17: a transition to unauthenticated discards all state: right after the
\* logout threats, riskStats, attackTypes and criticalAlerts are empty,
\* highRiskCount is 0 and the notification slot is empty.
C17_LogoutDiscardsState ==
    lastOp = "Logout"
        => /\ threats = <<>>
           /\ riskStats = <<>>
           /\ attackTypes = <<>>
           /\ criticalAlerts = <<>>
           /\ highRiskCount = 0
           /\ alert = NoAlert

\* C18: the effect is a no-op while not authenticated: before the first
\* login no fetch has been issued and no socket exists, and while logged out
\* the effect issues no fetch and no socket is created or opened.  When
\* isAuthenticated turns true the effect issues exactly one pull, for the
\* current dateFilter, and then creates the socket, which opens only after
\* that.  (A fetch issued while logged out by the continuation of an earlier
\* toggleStorageMode call is not the effect's.)
C18_InitializeOnlyWhenAuthenticated ==
    [][/\ lastOp = "Init" => (syncs = <<>> /\ socket = "none" /\ ~timer)
       /\ (~isAuthenticated /\ ~isAuthenticated')
             => /\ socket' \notin {"connecting", "open"}
                /\ ~timer'
                /\ lastOp' # "ToggleOk" => Len(syncs') = Len(syncs)
       /\ lastOp' = "Login"
             => /\ ~isAuthenticated /\ isAuthenticated'
                /\ syncs' = Append(syncs, [filter |-> dateFilter,
                                           pc |-> "summary", summ |-> 0])
                /\ socket' = "connecting"
       /\ lastOp' = "SocketOpen"
             => /\ isAuthenticated
                /\ syncs # <<>>]_vars

\* After a login the socket opened while the one pull of the effect was
\* still in flight.
C18_Witness ==
    /\ lastOp = "SocketOpen"
    /\ isAuthenticated
    /\ socket = "open"
    /\ inputs = 1
    /\ Len(syncs) = 1
    /\ syncs[1].pc = "summary"

\* C19: a failure of the initial pull keeps the hook in its syncing state:
\* while the first fetch of the session has failed and no response has ever
\* been written, loading is still true (an empty dashboard is never
\* reported as loaded).
C19_FailedInitialPullStaysSyncing ==
    (/\ isAuthenticated
     /\ syncs # <<>>
     /\ syncs[1].pc = "fail"
     /\ appliedSeq = 0
     /\ threats = <<>>)
        => loading

\* C20: a failed initial pull is retried: in an authenticated session whose
\* first fetch failed, another synchronizeTelemetry call is eventually
\* issued, whether or not the socket is open (unless the session ends or the
\* behaviour's input budget is used up first).
C20_FailedInitialPullRetried ==
    (/\ isAuthenticated
     /\ Len(syncs) = 1
     /\ syncs[1].pc = "fail"
     /\ lastOp = "SummaryFail"
     /\ inputs < MaxInputs)
        ~> \/ Len(syncs) > 1
           \/ ~isAuthenticated
           \/ inputs = MaxInputs

\* The synchronizeTelemetry call whose response the last write came from was
\* issued without a date filter.
AppliedUnfiltered == appliedSeq # 0 /\ syncs[appliedSeq].filter = NoFilter

\* C21: an applied unfiltered snapshot replaces the state wholesale:
\* afterwards threats, riskStats, attackTypes, criticalAlerts and
\* highRiskCount all hold the values of that one response (the defaults for
\* an empty response), with nothing carried over from the previous state or
\* from earlier pushes.
C21_SnapshotReplacesWholesale ==
    [][(lastOp' = "SummaryApplied" /\ AppliedUnfiltered')
          => \E k \in SummaryPayloads :
                /\ threats' = PayloadThreats(k)
                /\ riskStats' = Payload(k).risk_summary
                /\ attackTypes' = Payload(k).attack_types
                /\ criticalAlerts' = Payload(k).critical_alerts
                /\ highRiskCount' =
                      StatValue(Payload(k).risk_summary, "Critical")
                         + StatValue(Payload(k).risk_summary, "High")
                /\ k = 1 => telemetry' = <<<<>>, <<>>, <<>>, <<>>, 0>>]_vars

\* A snapshot of one event was written over a list that held a pushed event
\* (the push's alert is still in the slot).
C21_Witness ==
    /\ lastOp = "SummaryApplied"
    /\ AppliedUnfiltered
    /\ variant = "api"
    /\ alert.message = "Active Threat Detected"
    /\ threats = <<Ev(1)>>
    /\ criticalAlerts = <<Ev(1)>>

\* C22: setting a time window triggers a filtered fetch whose successful
\* result becomes the displayed state: when the latest call, issued for the
\* current window, completes without a failure, threats equal the filtered
\* response and riskStats, attackTypes and criticalAlerts equal the
\* recomputation over exactly those events.
C22_FilteredResultDisplayed ==
    [][LET s == Len(syncs) IN
       (/\ isAuthenticated
        /\ s > 0
        /\ dateFilter # NoFilter
        /\ syncs[s].filter = dateFilter
        /\ InFlight(s)
        /\ Len(syncs') = s
        /\ syncs'[s].pc = "ok")
          => /\ threats' = WindowEvents(dateFilter)
             /\ riskStats' = RiskStatsOf(threats')
             /\ attackTypes' = AttackTypesOf(threats')
             /\ criticalAlerts' = CriticalOf(threats')]_vars

\* C23: setting a time window and then clearing it restores the unfiltered
\* view through a fresh unfiltered fetch: when the call issued by the clear
\* completes without a failure, threats and the aggregates equal its summary
\* response (not the filtered result, not an earlier state).
C23_ClearRestoresLiveView ==
    [][LET s == Len(syncs) IN
       (/\ isAuthenticated
        /\ s > 1
        /\ dateFilter = NoFilter
        /\ syncs[s].filter = NoFilter
        /\ syncs[s - 1].filter # NoFilter
        /\ InFlight(s)
        /\ Len(syncs') = s
        /\ syncs'[s].pc = "ok")
          => \E k \in SummaryPayloads :
                /\ threats' = PayloadThreats(k)
                /\ riskStats' = Payload(k).risk_summary
                /\ attackTypes' = Payload(k).attack_types
                /\ criticalAlerts' = Payload(k).critical_alerts]_vars

\* C24: a push message that cannot be parsed, or whose type is not
\* THREAT_DETECTED, is dropped: it leaves threats, the aggregates,
\* criticalAlerts, highRiskCount and the notification unchanged, and the
\* socket stays open with its handler, so that a THREAT_DETECTED message
\* that follows is applied.
C24_BadPushDropped ==
    [][/\ lastOp' \in {"PushOtherType", "PushMalformed"}
             => /\ UNCHANGED <<telemetry, alert, loading, syncs>>
                /\ socket' = "open"
       /\ (lastOp \in {"PushOtherType", "PushMalformed"} /\
           lastOp' = "PushThreat")
             => /\ Len(threats') = Len(threats) + 1
                /\ \E i \in EventIds : threats'[1] = Ev(i)]_vars

\* A THREAT_DETECTED message was applied after a dropped one: in the axios
\* revision, with no response written yet and one call issued, the three
\* inputs of the behaviour can only be the login, a dropped message and the
\* message that put the one event in the list.
C24_Witness ==
    /\ lastOp = "PushThreat"
    /\ variant = "axios"
    /\ isAuthenticated
    /\ inputs = 3
    /\ appliedSeq = 0
    /\ Len(syncs) = 1
    /\ Len(threats) = 1

\* The number of events of the list whose risk score lies in lo..hi.
CountBetween(list, lo, hi) ==
    Cardinality({i \in 1..Len(list) :
                    list[i].risk_score >= lo /\ list[i].risk_score <= hi})

\* C25: for every event list the four bucket counts sum to the length of
\* the list and every event is counted in exactly one bucket: Critical
\* counts the scores from 80, High those from 60 to 79, Medium those from 30
\* to 59 and Low those below 30, so 30, 60 and 80 fall into the higher
\* bucket.
C25_BucketsPartition ==
    lastOp = "Recompute"
        => /\ Len(riskStats) = 4
           /\ {riskStats[i].name : i \in 1..4}
                 = {"Critical", "High", "Medium", "Low"}
           /\ StatValue(riskStats, "Critical")
                 + StatValue(riskStats, "High")
                 + StatValue(riskStats, "Medium")
                 + StatValue(riskStats, "Low") = Len(threats)
           /\ StatValue(riskStats, "Critical") = CountBetween(threats, 80, 100)
           /\ StatValue(riskStats, "High") = CountBetween(threats, 60, 79)
           /\ StatValue(riskStats, "Medium") = CountBetween(threats, 30, 59)
           /\ StatValue(riskStats, "Low") = CountBetween(threats, 0, 29)

\* A response with the three boundary scores was aggregated.
C25_Witness ==
    /\ lastOp = "Recompute"
    /\ Len(threats) = 3
    /\ {threats[i].risk_score : i \in 1..3} = {30, 60, 80}
    /\ StatValue(riskStats, "Medium") = 1
    /\ StatValue(riskStats, "High") = 1
    /\ StatValue(riskStats, "Critical") = 1
    /\ StatValue(riskStats, "Low") = 0

RECURSIVE SumValues(_)
SumValues(stats) ==
    IF stats = <<>> THEN 0 ELSE Head(stats).value + SumValues(Tail(stats))

\* C26: for every event list the per-label counts sum to the length of the
\* list, each label is listed once with the number of events that carry it
\* (events without a label count as Unknown), and for the empty list the
\* label map is empty and all four buckets are zero.
C26_TallySumsToLength ==
    lastOp = "Recompute"
        => /\ SumValues(attackTypes) = Len(threats)
           /\ \A i, j \in 1..Len(attackTypes) :
                 attackTypes[i].name = attackTypes[j].name => i = j
           /\ \A i \in 1..Len(attackTypes) :
                 attackTypes[i].value =
                    Cardinality({n \in 1..Len(threats) :
                       (IF threats[n].predicted_label = "" THEN "Unknown"
                        ELSE threats[n].predicted_label)
                          = attackTypes[i].name})
           /\ threats = <<>>
                 => /\ attackTypes = <<>>
                    /\ Len(riskStats) = 4
                    /\ \A i \in 1..4 : riskStats[i].value = 0
                    /\ criticalAlerts = <<>>

\* A response whose label repeats and whose third event has none was
\* tallied.
C26_Witness ==
    /\ lastOp = "Recompute"
    /\ Len(threats) = 3
    /\ attackTypes = <<[name |-> "DDoS", value |-> 2],
                       [name |-> "Unknown", value |-> 1]>>

C28_SnapshotRaisesNoAlert ==
    [][lastOp' \in {"SummaryApplied", "FilteredApplied"}
          => alert' = alert]_vars

\* The ids of the events of a list.
IdsOf(list) == {list[i].id : i \in 1..Len(list)}

\* C29: alert de-duplication: an event whose id is already in threats raises
\* no alert when it is delivered again, neither by a push nor as the newest
\* event of a later pull: the notification slot is left as it is.
C29_NoAlertOnRedelivery ==
    [][/\ (lastOp' = "PushThreat" /\ threats'[1].id \in IdsOf(threats))
             => alert' = alert
       /\ (lastOp' = "SummaryApplied" /\ threats' # <<>> /\
           threats'[1].id \in IdsOf(threats))
             => alert' = alert]_vars

\* C30: event status is changed only by an explicit resolve: a pushed
\* message leaves every event that was in the list as it was, and when some
\* event with the pushed id is Resolved in the list, the push shows no event
\* with that id as Active.
C30_PushNeverReactivates ==
    [][lastOp' = "PushThreat"
          => /\ Len(threats') = Len(threats) + 1
             /\ \A i \in 1..Len(threats) : threats'[i + 1] = threats[i]
             /\ \A i \in 1..Len(threats) :
                   threats[i].status = "Resolved"
                      => \A j \in 1..Len(threats') :
                            threats'[j].id = threats[i].id
                               => threats'[j].status = "Resolved"]_vars

\* C31: every failure of a snapshot fetch, a filtered fetch, a resolve call
\* or a block call is contained: the turn that handles it ends with an
\* error notification in the notification slot.
C31_FailuresBecomeErrorAlerts ==
    [][lastOp' \in {"SummaryFail", "FilteredFail", "ResolveFail", "BlockFail"}
          => alert'.type = "error"]_vars

\* C32: while a time window is active the exposed events and aggregates are
\* never those of the unfiltered summary: the summary response of a call
\* issued for the current window is not written to threats, riskStats,
\* attackTypes or criticalAlerts (so it shows neither until the filtered
\* response arrives nor for good when the filtered request fails).
C32_NoSummaryUnderFilter ==
    [][(/\ lastOp' = "SummaryApplied"
        /\ dateFilter # NoFilter
        /\ syncs'[appliedSeq'].filter = dateFilter)
          => UNCHANGED <<threats, riskStats, attackTypes, criticalAlerts>>]_vars

\* C33: in every reachable state highRiskCount equals the Critical count
\* plus the High count of riskStats.
C33_HighRiskCountMatchesBuckets ==
    highRiskCount
        = StatValue(riskStats, "Critical") + StatValue(riskStats, "High")

\* C34: a push preserves the count invariant: when the values of riskStats
\* sum to the number of events before a THREAT_DETECTED message is applied,
\* they sum to the number of events after it.
C34_PushKeepsCountInvariant ==
    [][(lastOp' = "PushThreat" /\ SumValues(riskStats) = Len(threats))
          => SumValues(riskStats') = Len(threats')]_vars

\* C35: a successful resolve is not undone by a stale pull: the response of
\* the first call of the session (issued at the login, so before any resolve)
\* never makes an event that is Resolved in the list appear as Active, nor
\* puts it back among the critical alerts.
C35_StalePullKeepsResolved ==
    [][(lastOp' = "SummaryApplied" /\ appliedSeq' = 1)
          => \A i \in 1..Len(threats) :
                threats[i].status = "Resolved"
                   => /\ \A j \in 1..Len(threats') :
                            threats'[j].id = threats[i].id
                               => threats'[j].status = "Resolved"
                      /\ threats[i].id \notin IdsOf(criticalAlerts')]_vars

\* C36: a pushed event applied in the unfiltered view is not dropped by a
\* snapshot response whose request was issued before the push arrived: when
\* the response of the first call is the first to be written, every event
\* in the list (each pushed since the login) is still in the list afterwards.
C36_PushSurvivesEarlierPull ==
    [][(/\ lastOp' = "SummaryApplied"
        /\ appliedSeq = 0
        /\ appliedSeq' = 1
        /\ dateFilter = NoFilter
        /\ syncs[1].filter = NoFilter)
          => IdsOf(threats) \subseteq IdsOf(threats')]_vars

\* C37: at most one push channel feeds the hook at any time: a change of
\* authentication or of the time window closes the socket of the previous
\* effect run before the new one is created, so the sockets that are not
\* closed are never more than one, namely the current run's, and a message
\* is applied or dropped only while that socket is open.
C37_AtMostOneChannel ==
    /\ channels \in {0, 1}
    /\ channels = 1 <=> socket \in {"connecting", "open"}
    /\ ~isAuthenticated => channels = 0
    /\ lastOp \in {"PushThreat", "PushOtherType", "PushMalformed"}
          => (socket = "open" /\ channels = 1)

\* The date was changed while the first run's socket was live: the new
\* run's socket is the only one.
C37_Witness ==
    /\ lastOp = "SetDateFilter"
    /\ inputs = 2
    /\ Len(syncs) = 2
    /\ socket = "connecting"
    /\ channels = 1

\* C38: a resolve changes only the status field of the events whose id
\* matches: the list keeps its length and order, every other field and
\* every other event is unchanged, the aggregates are untouched, and when no
\* event matches, threats and criticalAlerts are unchanged.  A failed
\* resolve changes none of them.
C38_ResolveFrame ==
    [][/\ lastOp' = "ResolveOk"
             => \E id \in resolves \ resolves' :
                   /\ Len(threats') = Len(threats)
                   /\ \A i \in 1..Len(threats) :
                         threats'[i] =
                            IF threats[i].id = id
                            THEN [threats[i] EXCEPT !.status = "Resolved"]
                            ELSE threats[i]
                   /\ UNCHANGED <<riskStats, attackTypes, highRiskCount>>
                   /\ id \notin (IdsOf(threats) \cup IdsOf(criticalAlerts))
                         => UNCHANGED <<threats, criticalAlerts>>
       /\ lastOp' = "ResolveFail" => UNCHANGED telemetry]_vars

\* A resolve succeeded on a list of two events: the second is Resolved, the
\* first is as it was.
C38_Witness ==
    /\ lastOp = "ResolveOk"
    /\ Len(threats) = 2
    /\ threats[1] = Ev(2)
    /\ threats[2] = [Ev(1) EXCEPT !.status = "Resolved"]

\* C39: every synchronizeTelemetry call ends with loading = false: whenever
\* a call in flight finishes, because its summary request succeeded or
\* failed, its filtered request succeeded or failed, or its result was
\* discarded after the cleanup, loading is false afterwards.
C39_SyncEndsNotLoading ==
    [][(\E s \in 1..Len(syncs) :
           InFlight(s) /\ syncs'[s].pc \in {"ok", "fail"})
          => ~loading']_vars

\* The first call of the session was discarded after a logout, and the
\* loading flag it found set is cleared.
C39_Witness ==
    /\ lastOp = "SummaryDiscarded"
    /\ variant = "api"
    /\ inputs = 2
    /\ ~isAuthenticated
    /\ Len(syncs) = 1
    /\ syncs[1].pc = "ok"
    /\ ~loading

\* C40: the table's severity filter partitions the events exactly like the
\* bucket classification: for every event and every S of Critical, High,
\* Medium, Low the event passes filter S if and only if the aggregation
\* counts it in bucket S, so the view under filter S has as many rows as
\* bucket S counts.
C40_FilterMatchesBuckets ==
    lastOp = "Recompute"
        => \A S \in {"Critical", "High", "Medium", "Low"} :
              /\ \A i \in 1..Len(threats) :
                    SeverityPass(S, threats[i].risk_score)
                       <=> RiskKey(threats[i].risk_score) = S
              /\ Len(activeViewData(threats, "All", S))
                    = StatValue(riskStats, S)
              /\ activeViewData(threats, "All", "All") = threats

\* A response with a score on each side of the High bucket's upper boundary
\* and one on its lower boundary: two rows under High, one under Critical.
C40_Witness ==
    /\ lastOp = "Recompute"
    /\ Len(threats) = 3
    /\ {threats[i].risk_score : i \in 1..3} = {60, 79, 80}
    /\ Len(activeViewData(threats, "All", "High")) = 2
    /\ Len(activeViewData(threats, "All", "Critical")) = 1
    /\ StatValue(riskStats, "High") = 2

=============================================================================
